---- MODULE Spec2Model ----
(***************************************************************************)
(* Fallout resolution workflow of the telecom activation prototypes.       *)
(*                                                                         *)
(* Spec      : src/act.py - the order store (TelecomAPI over SQLite), the  *)
(*             LangGraph workflow (master agent, three specialist agents,  *)
(*             human agent) and run_telecom_workflow, run by two workers   *)
(*             against one database.  One action is one database           *)
(*             transaction (one commit) or one graph step.                 *)
(* SpecAct1  : src/act-1.py - the routing graph built by build_graph.      *)
(*                                                                         *)
(* The language model behind every agent is an external collaborator: its  *)
(* answer (which tools it calls, in which order) is a nondeterministic     *)
(* input, bounded by MaxToolCalls tool calls per message.                  *)
(***************************************************************************)
EXTENDS Integers, Sequences, FiniteSets, TLC

----------------------------------------------------------------------------
(* Bounds of the model *)

\* tool calls in one agent message (execute_tools loops over all of them)
MaxToolCalls == 3
\* workflow runs started over the whole behaviour
MaxRuns == 2
\* worker crashes over the whole behaviour
MaxCrashes == 1
\* failed store writes (sqlite3.Error) over the whole behaviour
MaxStoreErrors == 1
\* calls of src/activation.py run_telecom_workflow() over the whole behaviour
MaxPolls == 3
\* calls of src/act-3.py run_test() over the whole behaviour
MaxTests == 2
\* orders retrieve_pending_orders returns to
\* src/Activation-Template-Code-Agentic.py execute_workflow
MaxPending == 3

Workers == {"w1", "w2"}
OrderIds == {"ORD1", "ORD2"}
NULL == "NULL"

----------------------------------------------------------------------------
(* Data model: src/act.py initialize_database / generate_mock_data *)

\* fallout_types of generate_mock_data, without None
FalloutTypes == {"NOT_SENT_FOR_ACTIVATION", "ESIM_ISSUE", "SWITCH_ISSUE", "OTHER_ISSUE"}

\* resolvers of generate_mock_data
resolvers(reason) ==
    CASE reason = "NOT_SENT_FOR_ACTIVATION" -> "resubmission_agent"
      [] reason = "ESIM_ISSUE" -> "esim_agent"
      [] reason = "SWITCH_ISSUE" -> "switch_agent"
      [] OTHER -> "human_agent"

\* the rows generate_mock_data inserts into orders: a fallout is Failed, or
\* already resolved (Completed, fallout_reason kept); no fallout is
\* Completed or Pending
OrderRows ==
    {[status |-> "Failed", fallout_reason |-> r, resolved_by |-> NULL,
      resolution_time |-> FALSE] : r \in FalloutTypes}
    \cup {[status |-> "Completed", fallout_reason |-> r, resolved_by |-> resolvers(r),
           resolution_time |-> TRUE] : r \in {"NOT_SENT_FOR_ACTIVATION"}}
    \cup {[status |-> s, fallout_reason |-> NULL, resolved_by |-> NULL,
           resolution_time |-> FALSE] : s \in {"Pending"}}

\* service_types decide the attachments: Mobile has an eSIM, Internet and TV
\* a switch, Bundle both
ServiceTypes == {"Mobile", "Internet", "Bundle"}

\* The fixture store: ORD1 is any order row of a Mobile or Internet order,
\* every other order is a Failed Bundle order with a switch or an other issue.
FixtureRows(o) ==
    IF o = "ORD1" THEN OrderRows
    ELSE {r \in OrderRows : r.status = "Failed"
                            /\ r.fallout_reason \in {"SWITCH_ISSUE", "OTHER_ISSUE"}}

FixtureServices(o) ==
    IF o = "ORD1" THEN {"Mobile", "Internet"} ELSE {"Bundle"}

\* the esims row generate_mock_data inserts for an order, "none" status when
\* the service type has no eSIM; code counts the activation codes issued
MockEsim(row, service) ==
    IF service \in {"Mobile", "Bundle"}
    THEN IF row.fallout_reason = "ESIM_ISSUE" /\ row.status = "Failed"
         THEN [status |-> "Failed", code |-> 0]
         ELSE [status |-> "Active", code |-> 1]
    ELSE [status |-> "none", code |-> 0]

\* the switches row generate_mock_data inserts for an order
MockSwitch(row, service) ==
    IF service \in {"Internet", "TV", "Bundle"}
    THEN IF row.fallout_reason = "SWITCH_ISSUE" /\ row.status = "Failed"
         THEN "Config Failed"
         ELSE "Configured"
    ELSE "none"

----------------------------------------------------------------------------
(* Workflow state: src/act.py AgentState, tools, agent nodes *)

HandlerTools == {"resubmit_order", "reprovision_esim", "reconfigure_switch"}
Tools == HandlerTools \cup {"get_order_details", "mark_for_human_intervention"}
SpecialistNodes == {"resubmission_agent", "esim_agent", "switch_agent"}
AgentNodes == SpecialistNodes \cup {"master_agent", "human_agent"}

\* agent_map of execute_tools
agent_map(tool) ==
    CASE tool = "resubmit_order" -> "resubmission_agent"
      [] tool = "reprovision_esim" -> "esim_agent"
      [] tool = "reconfigure_switch" -> "switch_agent"

\* the fallout_reason each handler requires
RequiredReason(tool) ==
    CASE tool = "resubmit_order" -> "NOT_SENT_FOR_ACTIVATION"
      [] tool = "reprovision_esim" -> "ESIM_ISSUE"
      [] tool = "reconfigure_switch" -> "SWITCH_ISSUE"

VARIABLES
    orders,       \* orders table: order_id -> row
    esims,        \* esims table: order_id -> [status, code]
    switches,     \* switches table: order_id -> config_status
    logs,         \* order_logs rows appended by the engine, per order, in order
    wk,           \* per worker: the AgentState of its run and its position
    runs,         \* runs started so far
    crashes,      \* crashes so far
    store_errors, \* store writes that raised sqlite3.Error so far
    invocations,  \* per worker and handler tool: invocations in the current run
    failures,     \* per worker: handler invocations that returned success=false in the current run
    wrote,        \* per worker: the current run has written to the store
    overlapped,   \* per order: some run on it started while another run on it was active
    a1_orders,        \* src/act-1.py orders table: order_id -> [status, issue_type]
    esim_profiles,    \* src/act-1.py esim_profiles table: order_id -> profile_status
    switch_configs,   \* src/act-1.py switch_configs table: order_id -> config_status
    graph_state,      \* src/act-1.py GraphState of the run and the node it is at
    av_orders,        \* src/activation.py orders table: order_id -> row
    av_service,       \* src/activation.py orders.service_type, which decides the attachments
    av_logs,          \* src/activation.py order_logs rows appended by the engine, per order
    av_state,         \* src/activation.py AgentState of the run and the node it is at
    av_polls,         \* src/activation.py runs started so far
    av_selected,      \* src/activation.py orders a run has been started on
    a3_orders,        \* src/act-3.py orders table: order_id -> the three statuses
    a3_fallouts,      \* src/act-3.py fallouts table: the rows in fallout_id order
    a3_state,         \* src/act-3.py AgentState of the run and the node it is at
    a3_tests,         \* src/act-3.py runs started so far
    tp_status,        \* Activation-Template: activation status of each pending order
    tp_attempts,      \* Activation-Template: submit_activation calls per pending order
    tp_state          \* Activation-Template: position of execute_workflow in its loop

vars == <<orders, esims, switches, logs, wk, runs, crashes, store_errors,
          invocations, failures, wrote, overlapped,
          a1_orders, esim_profiles, switch_configs, graph_state,
          av_orders, av_service, av_logs, av_state, av_polls, av_selected,
          a3_orders, a3_fallouts, a3_state, a3_tests,
          tp_status, tp_attempts, tp_state>>

\* the state of the src/act-3.py program
act3 == <<a3_orders, a3_fallouts, a3_state, a3_tests>>

\* the state of the src/Activation-Template-Code-Agentic.py program
template == <<tp_status, tp_attempts, tp_state>>

\* the state of the src/activation.py program
activation == <<av_orders, av_service, av_logs, av_state, av_polls, av_selected>>

\* the state of the src/act-1.py program
act1 == <<a1_orders, esim_profiles, switch_configs, graph_state>>

\* the state of the src/act.py program
act == <<orders, esims, switches, logs, wk, runs, crashes, store_errors,
         invocations, failures, wrote, overlapped>>

store == <<orders, esims, switches, logs>>
history == <<invocations, failures, wrote, overlapped>>

\* a worker that runs no workflow
IdleWorker ==
    [node |-> "idle", order_id |-> NULL, fallout_type |-> NULL,
     resolution_path |-> NULL, resolution_status |-> "PENDING",
     ncalls |-> 0, tool |-> "none", tstep |-> "none"]

\* initial_state of run_telecom_workflow
InitialState(o) ==
    [IdleWorker EXCEPT !.node = "master_agent", !.order_id = o]

\* src/act-1.py setup_database: the rows of orders, esim_profiles and
\* switch_configs ("none": the order has no such row)
Act1OrderIds == {"ORD001", "ORD002", "ORD003", "ORD004", "ORD005", "ORD006"}

setup_database ==
    /\ a1_orders =
          [o \in Act1OrderIds |->
             CASE o = "ORD001" -> [status |-> "Active", issue_type |-> NULL]
               [] o = "ORD002" -> [status |-> "Failed", issue_type |-> "eSIM"]
               [] o = "ORD003" -> [status |-> "Failed", issue_type |-> "Switch"]
               [] o = "ORD004" -> [status |-> "Failed", issue_type |-> "Not Sent"]
               [] o = "ORD005" -> [status |-> "Pending", issue_type |-> NULL]
               [] o = "ORD006" -> [status |-> "Failed", issue_type |-> "Unknown"]]
    /\ esim_profiles =
          [o \in Act1OrderIds |->
             CASE o = "ORD002" -> "Inactive"
               [] o = "ORD005" -> "Active"
               [] OTHER -> "none"]
    /\ switch_configs =
          [o \in Act1OrderIds |->
             CASE o = "ORD003" -> "Failed"
               [] o = "ORD005" -> "Active"
               [] OTHER -> "none"]

\* no graph is running
IdleGraph == [pc |-> "idle", order_id |-> NULL, agent |-> NULL]

\* src/activation.py: the orders of the fixture, listed from oldest to newest
\* created_at
AvOrderIds == <<"A1", "A2">>

\* AgentState of src/activation.py before a run
AvIdleState ==
    [pc |-> "idle", run_order |-> NULL, polled |-> FALSE, order_id |-> NULL,
     fallout_type |-> NULL,
     resolution_path |-> NULL, escalated_to_human |-> FALSE,
     resolution_status |-> "PENDING"]

\* the Failed rows generate_mock_data of src/activation.py inserts
AvFailedRows ==
    {[status |-> "Failed", fallout_reason |-> r, resolved_by |-> NULL] : r \in FalloutTypes}

\* the src/activation.py program at rest: one fixture store, nothing run yet
ActivationAtRest ==
    /\ av_orders = [i \in DOMAIN AvOrderIds |->
                      [status |-> "Failed", fallout_reason |-> "OTHER_ISSUE", resolved_by |-> NULL]]
    /\ av_service = [i \in DOMAIN AvOrderIds |-> "Bundle"]
    /\ av_logs = [i \in DOMAIN AvOrderIds |-> << >>]
    /\ av_state = AvIdleState
    /\ av_polls = 0
    /\ av_selected = {}

\* src/act-3.py: the sample orders of the script
A3OrderIds == {"ORD123", "ORD456", "ORD789", "ORD999", "ORD555"}

\* src/act-3.py: the rows of the orders list (activation_status, esim_status,
\* switch_status)
A3SampleOrders ==
    [o \in A3OrderIds |->
        CASE o = "ORD123" -> [activation |-> "not_sent", esim |-> "active", switch |-> "ok"]
          [] o = "ORD456" -> [activation |-> "sent", esim |-> "failed", switch |-> "ok"]
          [] o = "ORD789" -> [activation |-> "sent", esim |-> "active", switch |-> "error"]
          [] o = "ORD999" -> [activation |-> "sent", esim |-> "active", switch |-> "ok"]
          [] o = "ORD555" -> [activation |-> "sent", esim |-> "failed", switch |-> "error"]]

\* src/act-3.py: no graph is running
A3IdleState ==
    [pc |-> "idle", order_id |-> NULL, next_step |-> NULL, resolution |-> NULL,
     response |-> << >>, decision |-> << >>]

\* the src/act-3.py program at rest: a database that holds the sample orders
\* and no fallout row
Act3AtRest ==
    /\ a3_orders = A3SampleOrders
    /\ a3_fallouts = << >>
    /\ a3_state = A3IdleState
    /\ a3_tests = 0

\* the orders retrieve_pending_orders returns, in list order
TpPending == 1 .. MaxPending

\* execute_workflow has not been called
TpIdleState == [pc |-> "idle", i |-> 0]

\* the Activation-Template program at rest
TemplateAtRest ==
    /\ tp_status = [i \in TpPending |-> "sent"]
    /\ tp_attempts = [i \in TpPending |-> 0]
    /\ tp_state = TpIdleState

Init ==
    /\ setup_database
    /\ graph_state = IdleGraph
    /\ ActivationAtRest
    /\ Act3AtRest
    /\ TemplateAtRest
    /\ \E rows \in [OrderIds -> OrderRows], svc \in [OrderIds -> ServiceTypes] :
          /\ \A o \in OrderIds : rows[o] \in FixtureRows(o) /\ svc[o] \in FixtureServices(o)
          /\ orders = rows
          /\ esims = [o \in OrderIds |-> MockEsim(rows[o], svc[o])]
          /\ switches = [o \in OrderIds |-> MockSwitch(rows[o], svc[o])]
    /\ logs = [o \in OrderIds |-> << >>]
    /\ wk = [w \in Workers |-> IdleWorker]
    /\ runs = 0
    /\ crashes = 0
    /\ store_errors = 0
    /\ invocations = [w \in Workers |-> [t \in HandlerTools |-> 0]]
    /\ failures = [w \in Workers |-> 0]
    /\ wrote = [w \in Workers |-> FALSE]
    /\ overlapped = [o \in OrderIds |-> FALSE]

----------------------------------------------------------------------------
(* Order store operations: src/act.py class TelecomAPI *)

\* get_failed_orders: WHERE o.status = 'Failed' AND o.resolved_by IS NULL
get_failed_orders ==
    {o \in OrderIds : orders[o].status = "Failed" /\ orders[o].resolved_by = NULL}

\* an update_order_status that does not record who resolved the order
UpdateDropsResolver(row, status, fallout_reason, resolved_by) ==
    [status |-> status, fallout_reason |-> fallout_reason,
     resolved_by |-> NULL, resolution_time |-> FALSE]

\* an update_order_status that leaves the fallout reason on the row
UpdateKeepsReason(row, status, fallout_reason, resolved_by) ==
    [status |-> status, fallout_reason |-> row.fallout_reason,
     resolved_by |-> resolved_by, resolution_time |-> (resolved_by # NULL)]

\* the row update_order_status writes: status, fallout_reason, resolved_by,
\* and resolution_time set exactly when resolved_by is given
update_order_status(row, status, fallout_reason, resolved_by) ==
    [status |-> status, fallout_reason |-> fallout_reason,
     resolved_by |-> resolved_by, resolution_time |-> (resolved_by # NULL)]

\* a reprovision_esim whose UPDATE issues the activation code and leaves the
\* eSIM status as it was
EsimKeepsStatus(e) ==
    [e EXCEPT !.code = @ + 1]

\* the UPDATE of reprovision_esim: status Active with a fresh activation code
EsimAfterReprovision(e) ==
    [status |-> "Active", code |-> e.code + 1]

\* the UPDATE of reconfigure_switch
SwitchAfterReconfigure(c) == "Configured"

\* a mark_for_human_intervention that also clears the fallout reason
MarkedRowClearsReason(row) ==
    [row EXCEPT !.resolved_by = "human_agent", !.fallout_reason = NULL]

\* a mark_for_human_intervention that closes the order
MarkedRowCompletes(row) ==
    [row EXCEPT !.resolved_by = "human_agent", !.status = "Completed"]

\* the UPDATE of mark_for_human_intervention: resolved_by only
MarkedRow(row) == [row EXCEPT !.resolved_by = "human_agent"]

\* the attachment a handler needs is there
AttachmentFound(tool, o) ==
    CASE tool = "resubmit_order" -> TRUE
      [] tool = "reprovision_esim" -> esims[o].status # "none"
      [] tool = "reconfigure_switch" -> switches[o] # "none"

\* the checks every handler makes before it mutates anything
HandlerPrecondition(tool, o) ==
    /\ orders[o].status = "Failed"
    /\ orders[o].fallout_reason = RequiredReason(tool)
    /\ AttachmentFound(tool, o)

\* the event the handler logs itself after update_order_status
HandlerEvent(tool) ==
    CASE tool = "reprovision_esim" -> "ESIM_REPROVISIONED"
      [] tool = "reconfigure_switch" -> "SWITCH_RECONFIGURED"

----------------------------------------------------------------------------
(* Routing: src/act.py route_from_master, route_from_specialist *)

\* a route_from_master without the NOT_FAILED branch
RouteWithoutNotFailed(fallout_type) ==
    CASE fallout_type = "NOT_SENT_FOR_ACTIVATION" -> "resubmission_agent"
      [] fallout_type = "ESIM_ISSUE" -> "esim_agent"
      [] fallout_type = "SWITCH_ISSUE" -> "switch_agent"
      [] OTHER -> "human_agent"

\* a route_from_master whose default is the resubmission agent
RouteOtherToResubmission(fallout_type) ==
    CASE fallout_type = "ESIM_ISSUE" -> "esim_agent"
      [] fallout_type = "SWITCH_ISSUE" -> "switch_agent"
      [] fallout_type = "NOT_FAILED" -> "END"
      [] OTHER -> "resubmission_agent"

route_from_master(fallout_type) ==
    CASE fallout_type = "NOT_SENT_FOR_ACTIVATION" -> "resubmission_agent"
      [] fallout_type = "ESIM_ISSUE" -> "esim_agent"
      [] fallout_type = "SWITCH_ISSUE" -> "switch_agent"
      [] fallout_type = "NOT_FAILED" -> "END"
      [] OTHER -> "human_agent"

route_from_specialist(resolution_status) ==
    CASE resolution_status = "RESOLVED" -> "END"
      [] resolution_status = "FAILED_AUTOMATION" -> "human_agent"
      [] OTHER -> "human_agent"

\* the conditional edges of telecom_workflow
NextNode(node, s) ==
    CASE node = "master_agent" -> route_from_master(s.fallout_type)
      [] node \in SpecialistNodes -> route_from_specialist(s.resolution_status)
      [] node = "human_agent" -> "END"

\* the name agent_node records when the agent recommends escalation
AgentName(node) ==
    CASE node = "master_agent" -> "Master Agent"
      [] node = "resubmission_agent" -> "Resubmission Agent"
      [] node = "esim_agent" -> "eSIM Agent"
      [] node = "switch_agent" -> "Switch Agent"
      [] OTHER -> "human_agent"

----------------------------------------------------------------------------
(* Helpers over the worker state *)

Active(w) == wk[w].node \in AgentNodes

\* the tools each agent's prompt tells it to use (master_agent_prompt ...
\* human_agent_prompt); the agent calls them any number of times
ToolsOf(node) ==
    CASE node = "master_agent" -> {"get_order_details"}
      [] node = "resubmission_agent" -> {"resubmit_order"}
      [] node = "esim_agent" -> {"reprovision_esim"}
      [] node = "switch_agent" -> {"reconfigure_switch"}
      [] node = "human_agent" -> {"mark_for_human_intervention"}
      [] OTHER -> {}

\* the agent's message may carry one more tool call, of this tool
CanCall(w, tool) ==
    /\ Active(w)
    /\ tool \in ToolsOf(wk[w].node)
    /\ wk[w].tool = "none"
    /\ wk[w].ncalls < MaxToolCalls

\* execute_tools after a handler tool returned
AfterHandler(s, tool, success) ==
    [s EXCEPT !.tool = "none", !.tstep = "none", !.ncalls = @ + 1,
              !.resolution_path = agent_map(tool),
              !.resolution_status = IF success THEN "RESOLVED" ELSE "FAILED_AUTOMATION"]

----------------------------------------------------------------------------
(* run_telecom_workflow *)

StartRun(w, o) ==
    /\ ~Active(w)
    /\ runs < MaxRuns
    /\ runs' = runs + 1
    /\ wk' = [wk EXCEPT ![w] = InitialState(o)]
    /\ invocations' = [invocations EXCEPT ![w] = [t \in HandlerTools |-> 0]]
    /\ failures' = [failures EXCEPT ![w] = 0]
    /\ wrote' = [wrote EXCEPT ![w] = FALSE]
    /\ overlapped' = [overlapped EXCEPT ![o] =
                         @ \/ \E v \in Workers \ {w} : Active(v) /\ wk[v].order_id = o]
    /\ UNCHANGED <<store, crashes, store_errors, act1, activation, act3, template>>

\* run_telecom_workflow(order_id): the caller names the order
RunOrder(w, o) == StartRun(w, o)

\* run_telecom_workflow(): a failed, unresolved order with a fallout reason
RunFailedOrder(w) ==
    \E o \in {x \in get_failed_orders : orders[x].fallout_reason # NULL} : StartRun(w, o)

----------------------------------------------------------------------------
(* Tool calls of an agent message: src/act.py execute_tools and TelecomAPI.  *)
(* The tools act on the order the run was started for.                       *)

\* get_order_details, and what execute_tools derives from its result
get_order_details(w) ==
    LET s == wk[w]
        o == s.order_id
    IN  /\ CanCall(w, "get_order_details")
        /\ wk' = [wk EXCEPT ![w] =
                    [s EXCEPT !.ncalls = @ + 1,
                              !.fallout_type = IF orders[o].status # "Failed"
                                               THEN "NOT_FAILED"
                                               ELSE orders[o].fallout_reason]]
        /\ UNCHANGED <<store, runs, crashes, store_errors, history, act1, activation, act3, template>>

\* resubmit_order / reprovision_esim / reconfigure_switch, first transaction:
\* the SELECTs that check the order and find the attachment.  A failed check
\* returns success=false at once; otherwise the handler goes on to its updates.
InvokeHandler(w, tool) ==
    LET s == wk[w]
        o == s.order_id
    IN  /\ CanCall(w, tool)
        /\ invocations' = [invocations EXCEPT ![w][tool] = @ + 1]
        /\ IF HandlerPrecondition(tool, o)
           THEN /\ wk' = [wk EXCEPT ![w] =
                            [s EXCEPT !.tool = tool,
                                      !.tstep = IF tool = "resubmit_order"
                                                THEN "update_order"
                                                ELSE "update_attachment"]]
                /\ UNCHANGED failures
           ELSE /\ wk' = [wk EXCEPT ![w] = AfterHandler(s, tool, FALSE)]
                /\ failures' = [failures EXCEPT ![w] = @ + 1]
        /\ UNCHANGED <<store, runs, crashes, store_errors, wrote, overlapped, act1, activation, act3, template>>

\* an attachment UPDATE that writes the attachment of the other kind
UpdateOtherAttachment(w) ==
    LET s == wk[w]
        o == s.order_id
    IN  /\ s.tstep = "update_attachment"
        /\ IF s.tool = "reprovision_esim"
           THEN /\ switches' = [switches EXCEPT ![o] = SwitchAfterReconfigure(@)]
                /\ UNCHANGED esims
           ELSE /\ esims' = [esims EXCEPT ![o] = EsimAfterReprovision(@)]
                /\ UNCHANGED switches
        /\ wk' = [wk EXCEPT ![w].tstep = "update_order"]
        /\ wrote' = [wrote EXCEPT ![w] = TRUE]
        /\ UNCHANGED <<orders, logs, runs, crashes, store_errors, invocations, failures, overlapped, act1, activation, act3, template>>

\* reprovision_esim / reconfigure_switch: the UPDATE of the attachment and
\* its commit
UpdateAttachment(w) ==
    LET s == wk[w]
        o == s.order_id
    IN  /\ s.tstep = "update_attachment"
        /\ IF s.tool = "reprovision_esim"
           THEN /\ esims' = [esims EXCEPT ![o] = EsimAfterReprovision(@)]
                /\ UNCHANGED switches
           ELSE /\ switches' = [switches EXCEPT ![o] = SwitchAfterReconfigure(@)]
                /\ UNCHANGED esims
        /\ wk' = [wk EXCEPT ![w].tstep = "update_order"]
        /\ wrote' = [wrote EXCEPT ![w] = TRUE]
        /\ UNCHANGED <<orders, logs, runs, crashes, store_errors, invocations, failures, overlapped, act1, activation, act3, template>>

\* update_order_status(order_id, "Completed", None, agent): the UPDATE of the
\* order row and its commit
UpdateOrderStatus(w) ==
    LET s == wk[w]
        o == s.order_id
    IN  /\ s.tstep = "update_order"
        /\ orders' = [orders EXCEPT ![o] =
                        update_order_status(@, "Completed", NULL, agent_map(s.tool))]
        /\ wk' = [wk EXCEPT ![w].tstep = "log_status"]
        /\ wrote' = [wrote EXCEPT ![w] = TRUE]
        /\ UNCHANGED <<esims, switches, logs, runs, crashes, store_errors, invocations, failures, overlapped, act1, activation, act3, template>>

\* update_order_status raises sqlite3.Error in its UPDATE: it rolls back its
\* own connection and returns success=false, and so does the handler; the
\* attachment UPDATE was committed before and stays
UpdateOrderStatusFails(w) ==
    LET s == wk[w]
    IN  /\ s.tstep = "update_order"
        /\ store_errors < MaxStoreErrors
        /\ store_errors' = store_errors + 1
        /\ wk' = [wk EXCEPT ![w] = AfterHandler(s, s.tool, FALSE)]
        /\ failures' = [failures EXCEPT ![w] = @ + 1]
        /\ UNCHANGED <<store, runs, crashes, invocations, wrote, overlapped, act1, activation, act3, template>>

\* update_order_status: the STATUS_UPDATE log entry and its commit;
\* resubmit_order returns success after it
LogStatusUpdate(w) ==
    LET s == wk[w]
        o == s.order_id
    IN  /\ s.tstep = "log_status"
        /\ logs' = [logs EXCEPT ![o] = Append(@, "STATUS_UPDATE")]
        /\ wk' = [wk EXCEPT ![w] = IF s.tool = "resubmit_order"
                                   THEN AfterHandler(s, s.tool, TRUE)
                                   ELSE [s EXCEPT !.tstep = "log_event"]]
        /\ wrote' = [wrote EXCEPT ![w] = TRUE]
        /\ UNCHANGED <<orders, esims, switches, runs, crashes, store_errors, invocations, failures, overlapped, act1, activation, act3, template>>

\* reprovision_esim / reconfigure_switch: the handler's own log entry, its
\* commit, and the return of success=true
LogEvent(w) ==
    LET s == wk[w]
        o == s.order_id
    IN  /\ s.tstep = "log_event"
        /\ logs' = [logs EXCEPT ![o] = Append(@, HandlerEvent(s.tool))]
        /\ wk' = [wk EXCEPT ![w] = AfterHandler(s, s.tool, TRUE)]
        /\ wrote' = [wrote EXCEPT ![w] = TRUE]
        /\ UNCHANGED <<orders, esims, switches, runs, crashes, store_errors, invocations, failures, overlapped, act1, activation, act3, template>>

\* mark_for_human_intervention: one transaction that appends the log entry
\* and sets resolved_by, whatever the order's status
mark_for_human_intervention(w) ==
    LET s == wk[w]
        o == s.order_id
    IN  /\ CanCall(w, "mark_for_human_intervention")
        /\ logs' = [logs EXCEPT ![o] = Append(@, "HUMAN_INTERVENTION_NEEDED")]
        /\ orders' = [orders EXCEPT ![o] = MarkedRow(@)]
        /\ wk' = [wk EXCEPT ![w] =
                    [s EXCEPT !.ncalls = @ + 1,
                              !.resolution_path = "human_agent",
                              !.resolution_status = "HUMAN_INTERVENTION_REQUESTED"]]
        /\ wrote' = [wrote EXCEPT ![w] = TRUE]
        /\ UNCHANGED <<esims, switches, runs, crashes, store_errors, invocations, failures, overlapped, act1, activation, act3, template>>

----------------------------------------------------------------------------
(* Agent nodes and edges: src/act.py agent_node, human_agent_node, graph *)

\* the per-run counters are kept while the run is in flight only
EndOfRun(w, next) ==
    IF next = "END"
    THEN /\ invocations' = [invocations EXCEPT ![w] = [t \in HandlerTools |-> 0]]
         /\ failures' = [failures EXCEPT ![w] = 0]
    ELSE UNCHANGED <<invocations, failures>>

\* the agent answers without a tool call; a specialist or the master may
\* recommend escalation in its text, the human agent is marked failed
NoToolCall(w, escalate) ==
    LET s == wk[w]
        t == IF s.node = "human_agent"
             THEN [s EXCEPT !.resolution_status = "FAILED_AUTOMATION"]
             ELSE IF escalate
                  THEN [s EXCEPT !.resolution_status = "FAILED_AUTOMATION",
                                 !.resolution_path = AgentName(s.node)]
                  ELSE s
    IN  /\ Active(w)
        /\ s.tool = "none"
        /\ s.ncalls = 0
        /\ s.node = "human_agent" => ~escalate
        /\ wk' = [wk EXCEPT ![w] = [t EXCEPT !.node = NextNode(s.node, t)]]
        /\ EndOfRun(w, NextNode(s.node, t))
        /\ UNCHANGED <<store, runs, crashes, store_errors, wrote, overlapped, act1, activation, act3, template>>

\* all tool calls of the message are executed: the node returns and the
\* conditional edge chooses the next node
FinishNode(w) ==
    LET s == wk[w]
    IN  /\ Active(w)
        /\ s.tool = "none"
        /\ s.ncalls >= 1
        /\ wk' = [wk EXCEPT ![w] = [s EXCEPT !.node = NextNode(s.node, s), !.ncalls = 0]]
        /\ EndOfRun(w, NextNode(s.node, s))
        /\ UNCHANGED <<store, runs, crashes, store_errors, wrote, overlapped, act1, activation, act3, template>>

\* the worker's process dies between two transactions; nothing is rolled
\* back, since every transaction so far was committed
Crash(w) ==
    /\ Active(w)
    /\ crashes < MaxCrashes
    /\ crashes' = crashes + 1
    /\ wk' = [wk EXCEPT ![w] = IdleWorker]
    /\ EndOfRun(w, "END")
    /\ UNCHANGED <<store, runs, store_errors, wrote, overlapped, act1, activation, act3, template>>

\* one step of worker w
Step(w) ==
    \/ \E o \in OrderIds : RunOrder(w, o)
    \/ RunFailedOrder(w)
    \/ get_order_details(w)
    \/ \E tool \in HandlerTools : InvokeHandler(w, tool)
    \/ UpdateAttachment(w)
    \/ UpdateOrderStatus(w)
    \/ UpdateOrderStatusFails(w)
    \/ LogStatusUpdate(w)
    \/ LogEvent(w)
    \/ mark_for_human_intervention(w)
    \/ \E escalate \in BOOLEAN : NoToolCall(w, escalate)
    \/ FinishNode(w)
    \/ Crash(w)

Next == \E w \in Workers : Step(w)

\* two workers run workflows against one store, in any interleaving
Spec == Init /\ [][Next]_vars

NextSeq == Step("w1")

\* one worker: runs follow each other, nothing else mutates the store
SpecSeq == Init /\ [][NextSeq]_vars

----------------------------------------------------------------------------
(* src/act-1.py: the routing graph of build_graph, run by run_graph against  *)
(* the tables of setup_database                                              *)

\* the names should_route recognises
Act1AgentNames ==
    {"Resubmit Order Agent", "Reprovision eSIM Agent",
     "Reprovision Switch Agent", "Human in the Loop Agent"}

\* what the master agent may answer: a recognised name, or the name its own
\* prompt gives the human route ("route to the Human in the Loop")
Act1Answers == Act1AgentNames \cup {"Human in the Loop"}

Act1HandlerNodes ==
    {"resubmit_order", "reprovision_esim", "reprovision_switch", "human_in_the_loop"}

\* should_route: the conditional edge out of "route"
should_route(agent) ==
    IF agent = "Resubmit Order Agent" THEN "resubmit_order"
    ELSE IF agent = "Reprovision eSIM Agent" THEN "reprovision_esim"
    ELSE IF agent = "Reprovision Switch Agent" THEN "reprovision_switch"
    ELSE IF agent = "Human in the Loop Agent" THEN "human_in_the_loop"
    ELSE "master"

\* run_graph(order_data): __main__ selects a row by its issue_type
run_graph(o) ==
    /\ graph_state.pc \in {"idle", "END"}
    /\ a1_orders[o].issue_type # NULL
    /\ graph_state' = [pc |-> "master", order_id |-> o, agent |-> NULL]
    /\ UNCHANGED <<a1_orders, esim_profiles, switch_configs, act, activation, act3, template>>

\* node "master": the answer of the master agent names the agent; the edge
\* master -> route
master_agent(answer) ==
    /\ graph_state.pc = "master"
    /\ graph_state' = [graph_state EXCEPT !.pc = "route", !.agent = answer]
    /\ UNCHANGED <<a1_orders, esim_profiles, switch_configs, act, activation, act3, template>>

\* the conditional edges of "route"
route ==
    /\ graph_state.pc = "route"
    /\ graph_state' = [graph_state EXCEPT !.pc = should_route(graph_state.agent)]
    /\ UNCHANGED <<a1_orders, esim_profiles, switch_configs, act, activation, act3, template>>

\* the UPDATE of orders every tool ends with
Act1Resolved(status) == [status |-> status, issue_type |-> NULL]

\* node "resubmit_order": ResubmitOrderTool, then the edge to END
resubmit_order_agent ==
    LET o == graph_state.order_id
    IN  /\ graph_state.pc = "resubmit_order"
        /\ a1_orders' = [a1_orders EXCEPT ![o] = Act1Resolved("Pending")]
        /\ graph_state' = [graph_state EXCEPT !.pc = "END"]
        /\ UNCHANGED <<esim_profiles, switch_configs, act, activation, act3, template>>

\* node "reprovision_esim": ReprovisionESIMTool, then the edge to END
reprovision_esim_agent ==
    LET o == graph_state.order_id
    IN  /\ graph_state.pc = "reprovision_esim"
        /\ IF esim_profiles[o] = "none"
           THEN UNCHANGED <<a1_orders, esim_profiles>>
           ELSE /\ esim_profiles' = [esim_profiles EXCEPT ![o] = "Active"]
                /\ a1_orders' = [a1_orders EXCEPT ![o] = Act1Resolved("Active")]
        /\ graph_state' = [graph_state EXCEPT !.pc = "END"]
        /\ UNCHANGED <<switch_configs, act, activation, act3, template>>

\* node "reprovision_switch": ReprovisionSwitchTool, then the edge to END
reprovision_switch_agent ==
    LET o == graph_state.order_id
    IN  /\ graph_state.pc = "reprovision_switch"
        /\ IF switch_configs[o] = "none"
           THEN UNCHANGED <<a1_orders, switch_configs>>
           ELSE /\ switch_configs' = [switch_configs EXCEPT ![o] = "Active"]
                /\ a1_orders' = [a1_orders EXCEPT ![o] = Act1Resolved("Active")]
        /\ graph_state' = [graph_state EXCEPT !.pc = "END"]
        /\ UNCHANGED <<esim_profiles, act, activation, act3, template>>

\* node "human_in_the_loop": a summary for the operator, no tool
human_in_the_loop_agent ==
    /\ graph_state.pc = "human_in_the_loop"
    /\ graph_state' = [graph_state EXCEPT !.pc = "END"]
    /\ UNCHANGED <<a1_orders, esim_profiles, switch_configs, act, activation, act3, template>>

\* the src/act.py program at rest: one fixture store, no worker running
ActAtRest ==
    LET row == [status |-> "Failed", fallout_reason |-> "OTHER_ISSUE",
                resolved_by |-> NULL, resolution_time |-> FALSE]
    IN  /\ orders = [o \in OrderIds |-> row]
        /\ esims = [o \in OrderIds |-> MockEsim(row, "Bundle")]
        /\ switches = [o \in OrderIds |-> MockSwitch(row, "Bundle")]
        /\ logs = [o \in OrderIds |-> << >>]
        /\ wk = [w \in Workers |-> IdleWorker]
        /\ runs = 0
        /\ crashes = 0
        /\ store_errors = 0
        /\ invocations = [w \in Workers |-> [t \in HandlerTools |-> 0]]
        /\ failures = [w \in Workers |-> 0]
        /\ wrote = [w \in Workers |-> FALSE]
        /\ overlapped = [o \in OrderIds |-> FALSE]

InitAct1 ==
    /\ setup_database
    /\ graph_state = IdleGraph
    /\ ActAtRest
    /\ ActivationAtRest
    /\ Act3AtRest
    /\ TemplateAtRest

NextAct1 ==
    \/ \E o \in Act1OrderIds : run_graph(o)
    \/ \E answer \in Act1Answers : master_agent(answer)
    \/ route
    \/ resubmit_order_agent
    \/ reprovision_esim_agent
    \/ reprovision_switch_agent
    \/ human_in_the_loop_agent

\* the graph of src/act-1.py, run for one order after another
SpecAct1 == InitAct1 /\ [][NextAct1]_vars

\* the graph runtime keeps executing the next node as long as there is one
SpecAct1Fair == SpecAct1 /\ WF_vars(NextAct1)

-----------------------------------------------------------------------------
(* src/activation.py: the polling workflow.  Orders are numbered by created_at,
   1 the oldest; every call of run_telecom_workflow() without an order id is
   one poll. *)

AvOrders == DOMAIN AvOrderIds

\* generate_mock_data: an order is Failed with a fallout reason and no
\* resolver, or it is not Failed
AvFixtureRows ==
    AvFailedRows \cup {[status |-> "Completed", fallout_reason |-> NULL, resolved_by |-> NULL]}

\* generate_mock_data: Mobile and Bundle orders have an eSIM row
AvHasEsim(i) == av_service[i] \in {"Mobile", "Bundle"}

\* generate_mock_data: Internet, TV and Bundle orders have a switch row
AvHasSwitch(i) == av_service[i] \in {"Internet", "Bundle"}

\* TelecomAPI.get_failed_orders(1): the newest order that is Failed and has no
\* resolver, as a set of at most one order
av_get_failed_orders ==
    LET failed == {i \in AvOrders : av_orders[i].status = "Failed" /\ av_orders[i].resolved_by = NULL}
    IN  {i \in failed : \A j \in failed : j <= i}

\* TelecomAPI.update_order_status(order_id, "Completed", None, resolved_by)
av_update_order_status(i, resolved_by) ==
    [av_orders EXCEPT ![i] = [status |-> "Completed", fallout_reason |-> NULL,
                              resolved_by |-> resolved_by]]

\* the fallout_reason each handler of TelecomAPI requires
AvRequiredReason(tool) ==
    CASE tool = "resubmit_order" -> "NOT_SENT_FOR_ACTIVATION"
      [] tool = "reprovision_esim" -> "ESIM_ISSUE"
      [] tool = "reconfigure_switch" -> "SWITCH_ISSUE"

\* the checks every handler of TelecomAPI makes before it writes
AvHandlerPrecondition(tool, i) ==
    /\ av_orders[i].status = "Failed"
    /\ av_orders[i].fallout_reason = AvRequiredReason(tool)
    /\ tool = "reprovision_esim" => AvHasEsim(i)
    /\ tool = "reconfigure_switch" => AvHasSwitch(i)

\* route_to_specialist(state)
route_to_specialist(fallout_type) ==
    CASE fallout_type = "NOT_SENT_FOR_ACTIVATION" -> "resubmission_agent"
      [] fallout_type = "ESIM_ISSUE" -> "esim_agent"
      [] fallout_type = "SWITCH_ISSUE" -> "switch_agent"
      [] OTHER -> "human_agent"

\* is_resolution_completed(state)
is_resolution_completed(state) == state.resolution_status = "RESOLVED"

\* the conditional edges of a specialist node
AvAfterSpecialist(state) ==
    [state EXCEPT !.pc = IF is_resolution_completed(state) THEN "END" ELSE "human_agent"]

\* run_telecom_workflow(): with no order id it takes get_failed_orders(1)
av_run_telecom_workflow ==
    /\ av_state.pc \in {"idle", "END", "ERROR"}
    /\ av_polls < MaxPolls
    /\ \E i \in av_get_failed_orders :
           /\ av_state' = [AvIdleState EXCEPT !.pc = "master_agent", !.run_order = i,
                                              !.polled = TRUE]
           /\ av_selected' = av_selected \cup {i}
    /\ av_polls' = av_polls + 1
    /\ UNCHANGED <<av_orders, av_service, av_logs, act, act1, act3, template>>

\* an order id that is not in the orders table
AvUnknownOrder == 0

\* run_telecom_workflow(order_id): the caller names the order.
\* get_order_details builds dict(cursor.fetchone()); for an id without a row
\* fetchone() is None and the TypeError leaves run_telecom_workflow
av_run_telecom_workflow_order(i) ==
    /\ av_state.pc \in {"idle", "END", "ERROR"}
    /\ av_polls < MaxPolls
    /\ av_state' = IF i \in AvOrders
                   THEN [AvIdleState EXCEPT !.pc = "master_agent", !.run_order = i]
                   ELSE [AvIdleState EXCEPT !.pc = "ERROR", !.run_order = i]
    /\ av_selected' = av_selected \cup ({i} \cap AvOrders)
    /\ av_polls' = av_polls + 1
    /\ UNCHANGED <<av_orders, av_service, av_logs, act, act1, act3, template>>

\* master_agent(state) and the edge after it: the model's first tool call, if
\* it is get_order_details, sets order_id and fallout_type
av_master_agent(call) ==
    /\ av_state.pc = "master_agent"
    /\ LET i == av_state.run_order
           fallout_type == IF call = "get_order_details"
                           THEN av_orders[i].fallout_reason ELSE NULL
       IN  av_state' = [av_state EXCEPT
                          !.order_id = IF call = "get_order_details" THEN i ELSE NULL,
                          !.fallout_type = fallout_type,
                          !.pc = route_to_specialist(fallout_type)]
    /\ UNCHANGED <<av_orders, av_service, av_logs, av_polls, av_selected, act, act1, act3, template>>

\* TelecomAPI.mark_for_human_intervention(order_id): one log row; of the order
\* row only updated_at is written, which the model does not keep
av_mark_for_human_intervention(i) ==
    [av_logs EXCEPT ![i] = Append(@, "HUMAN_INTERVENTION_NEEDED")]

\* a specialist node and the edge after it: of the model's tool calls only the
\* first is executed.  The handler returns success=false when a check fails;
\* otherwise it completes the order and logs its event.  Where may_raise, the
\* handler calls update_order_status while its own attachment UPDATE is still
\* uncommitted: the write on the second connection finds the database locked,
\* and sqlite3.OperationalError ends the run with nothing committed.
AvSpecialist(node, tool, event, may_raise, call) ==
    LET i == av_state.run_order
    IN  /\ \/ /\ call = tool
              /\ AvHandlerPrecondition(tool, i)
              /\ ~may_raise
              /\ av_orders' = av_update_order_status(i, node)
              /\ av_logs' = [av_logs EXCEPT ![i] = Append(@, event)]
              /\ av_state' = AvAfterSpecialist([av_state EXCEPT
                                 !.resolution_status = "RESOLVED",
                                 !.resolution_path = node])
           \/ /\ call = tool
              /\ AvHandlerPrecondition(tool, i)
              /\ may_raise
              /\ av_state' = [av_state EXCEPT !.pc = "ERROR"]
              /\ UNCHANGED <<av_orders, av_logs>>
           \/ /\ call = tool
              /\ ~AvHandlerPrecondition(tool, i)
              /\ av_state' = AvAfterSpecialist(av_state)
              /\ UNCHANGED <<av_orders, av_logs>>
           \/ /\ call = "mark_for_human_intervention"
              /\ av_logs' = av_mark_for_human_intervention(i)
              /\ av_state' = AvAfterSpecialist([av_state EXCEPT !.escalated_to_human = TRUE])
              /\ UNCHANGED av_orders
           \/ /\ call = "none"
              /\ av_state' = AvAfterSpecialist(av_state)
              /\ UNCHANGED <<av_orders, av_logs>>
        /\ UNCHANGED <<av_service, av_polls, av_selected, act, act1, act3, template>>

\* resubmission_agent(state)
av_resubmission_agent(call) ==
    /\ av_state.pc = "resubmission_agent"
    /\ AvSpecialist("resubmission_agent", "resubmit_order", "ORDER_RESUBMITTED", FALSE, call)

\* esim_agent(state)
av_esim_agent(call) ==
    /\ av_state.pc = "esim_agent"
    /\ AvSpecialist("esim_agent", "reprovision_esim", "ESIM_REPROVISIONED", TRUE, call)

\* switch_agent(state)
av_switch_agent(call) ==
    /\ av_state.pc = "switch_agent"
    /\ AvSpecialist("switch_agent", "reconfigure_switch", "SWITCH_RECONFIGURED", TRUE, call)

\* human_agent(state) and the edge to END
av_human_agent(call) ==
    LET i == av_state.run_order
    IN  /\ av_state.pc = "human_agent"
        /\ \/ /\ call = "mark_for_human_intervention"
              /\ av_logs' = av_mark_for_human_intervention(i)
              /\ av_state' = [av_state EXCEPT !.escalated_to_human = TRUE,
                                              !.resolution_status = "PENDING",
                                              !.pc = "END"]
           \/ /\ call = "none"
              /\ av_state' = [av_state EXCEPT !.pc = "END"]
              /\ UNCHANGED av_logs
        /\ UNCHANGED <<av_orders, av_service, av_polls, av_selected, act, act1, act3, template>>

\* the first tool call a node's model may make
AvCalls(tool) == {tool, "mark_for_human_intervention", "none"}

InitActivation ==
    /\ ActAtRest
    /\ setup_database
    /\ graph_state = IdleGraph
    /\ Act3AtRest
    /\ TemplateAtRest
    /\ av_orders \in [AvOrders -> AvFixtureRows]
    /\ av_service \in [AvOrders -> ServiceTypes]
    /\ av_logs = [i \in AvOrders |-> << >>]
    /\ av_state = AvIdleState
    /\ av_polls = 0
    /\ av_selected = {}

NextActivation ==
    \/ av_run_telecom_workflow
    \/ \E i \in AvOrders \cup {AvUnknownOrder} : av_run_telecom_workflow_order(i)
    \/ \E call \in {"get_order_details", "none"} : av_master_agent(call)
    \/ \E call \in AvCalls("resubmit_order") : av_resubmission_agent(call)
    \/ \E call \in AvCalls("reprovision_esim") : av_esim_agent(call)
    \/ \E call \in AvCalls("reconfigure_switch") : av_switch_agent(call)
    \/ \E call \in {"mark_for_human_intervention", "none"} : av_human_agent(call)

SpecActivation == InitActivation /\ [][NextActivation]_vars

\* the orchestrator that only polls: every run is run_telecom_workflow() with
\* no order id
NextPolling ==
    \/ av_run_telecom_workflow
    \/ \E call \in {"get_order_details", "none"} : av_master_agent(call)
    \/ \E call \in AvCalls("resubmit_order") : av_resubmission_agent(call)
    \/ \E call \in AvCalls("reprovision_esim") : av_esim_agent(call)
    \/ \E call \in AvCalls("reconfigure_switch") : av_switch_agent(call)
    \/ \E call \in {"mark_for_human_intervention", "none"} : av_human_agent(call)

SpecPolling == InitActivation /\ [][NextPolling]_vars

-----------------------------------------------------------------------------
(* src/act-3.py: the validated workflow.  The text of a model answer is a
   sequence of characters, so that the parsing of the agents is computed as
   the code computes it. *)

\* what the master model may write after "Decision:"; the empty text stands
\* for an answer without "Decision:"
A3MasterAnswers ==
    {<< >>,
     <<" ", "[", "r", "e", "s", "u", "b", "m", "i", "s", "s", "i", "o", "n", "]">>,
     <<" ", "[", "e", "s", "i", "m", "]">>,
     <<" ", "[", "s", "w", "i", "t", "c", "h", "]">>,
     <<" ", "[", "h", "u", "m", "a", "n", "]">>,
     <<" ", "e", "s", "i", "m">>}

\* what the validation model may answer: the three answers in the format the
\* prompt asks for, an answer without brackets, and a bare bracket
A3SuccessAnswer == <<"[", "s", "u", "c", "c", "e", "s", "s", "]">>

A3ValidationAnswers ==
    {A3SuccessAnswer,
     <<"[", "r", "e", "t", "r", "y", "]">>,
     <<"[", "h", "u", "m", "a", "n", "]">>,
     <<"s", "u", "c", "c", "e", "s", "s">>,
     <<"]">>}

\* str.strip() on a text of the model's alphabet: blanks off both ends
RECURSIVE Strip(_)
Strip(t) ==
    IF t = << >> THEN t
    ELSE IF Head(t) = " " THEN Strip(Tail(t))
    ELSE IF t[Len(t)] = " " THEN Strip(SubSeq(t, 1, Len(t) - 1))
    ELSE t

\* str.lower(): the answers are written in lower case already
Lower(t) == [k \in DOMAIN t |-> IF t[k] = "S" THEN "s" ELSE t[k]]

\* t[1:-1]
DropEnds(t) == IF Len(t) <= 2 THEN << >> ELSE SubSeq(t, 2, Len(t) - 1)

\* master_agent: decision = parts[1].strip().lower()[1:-1], and next_step is
\* the decision if it names a specialist, else "human"
MasterNextStep(text) ==
    LET decision == DropEnds(Lower(Strip(text)))
    IN  CASE decision = <<"r", "e", "s", "u", "b", "m", "i", "s", "s", "i", "o", "n">> -> "resubmission"
          [] decision = <<"e", "s", "i", "m">> -> "esim"
          [] decision = <<"s", "w", "i", "t", "c", "h">> -> "switch"
          [] OTHER -> "human"

\* the position of the first "]" in the text, 0 if there is none
FirstBracket(t) ==
    IF \E k \in DOMAIN t : t[k] = "]"
    THEN CHOOSE k \in DOMAIN t : t[k] = "]" /\ \A j \in 1 .. (k - 1) : t[j] # "]"
    ELSE 0

\* validation_agent: decision = "human" unless the answer has a "]"; then it
\* is response.content.split(']')[0][-1].strip().lower(), the last character
\* before the first "]" ("IndexError" when there is none before it)
ValidationDecision(t) ==
    LET k == FirstBracket(t)
    IN  IF k = 0 THEN <<"h", "u", "m", "a", "n">>
        ELSE IF k = 1 THEN "IndexError"
        ELSE Lower(Strip(<<t[k - 1]>>))

\* TelecomTools.log_fallout: a new fallouts row, status 'open'
log_fallout(order_id, resolution_type) ==
    Append(a3_fallouts, [order_id |-> order_id, resolution_type |-> resolution_type,
                         status |-> "open", validation_attempts |-> 0])

\* app.stream(state) of run_test(order_id)
run_test(o) ==
    /\ a3_state.pc \in {"idle", "END", "ERROR"}
    /\ a3_tests < MaxTests
    /\ a3_tests' = a3_tests + 1
    /\ a3_state' = [A3IdleState EXCEPT !.pc = "master", !.order_id = o]
    /\ UNCHANGED <<a3_orders, a3_fallouts, act, act1, activation, template>>

\* master_agent(state) and the conditional edge after it
a3_master_agent(text) ==
    /\ a3_state.pc = "master"
    /\ a3_fallouts' = log_fallout(a3_state.order_id, "initial_detection")
    /\ LET next_step == IF text = << >> THEN "human" ELSE MasterNextStep(text)
       IN  a3_state' = [a3_state EXCEPT !.next_step = next_step, !.pc = next_step]
    /\ UNCHANGED <<a3_orders, a3_tests, act, act1, activation, template>>

\* resubmission_agent / esim_agent / switch_agent and the edge to validation:
\* the UPDATE of the tool, made without any check of the order
A3Specialist(node, field, value) ==
    /\ a3_orders' = [a3_orders EXCEPT ![a3_state.order_id][field] = value]
    /\ a3_state' = [a3_state EXCEPT !.resolution = node, !.next_step = "validation",
                                    !.pc = "validation"]
    /\ UNCHANGED <<a3_fallouts, a3_tests, act, act1, activation, template>>

a3_resubmission_agent ==
    /\ a3_state.pc = "resubmission"
    /\ A3Specialist("resubmission", "activation", "pending")

a3_esim_agent ==
    /\ a3_state.pc = "esim"
    /\ A3Specialist("esim", "esim", "reprovisioned")

a3_switch_agent ==
    /\ a3_state.pc = "switch"
    /\ A3Specialist("switch", "switch", "reconfigured")

\* validation_agent(state): the answer is parsed, then the UPDATE of fallouts
\* is executed.  Its CASE expression has no END, sqlite3 rejects the statement
\* (OperationalError: near "WHERE": syntax error), and the node raises before
\* it returns a next_step; response and decision are the node's locals.
validation_agent(text) ==
    /\ a3_state.pc = "validation"
    /\ a3_state' = [a3_state EXCEPT !.response = text,
                                    !.decision = ValidationDecision(text),
                                    !.pc = "ERROR"]
    /\ UNCHANGED <<a3_orders, a3_fallouts, a3_tests, act, act1, activation, template>>

\* human_review(state) and the edge to END: the operator's choice is written
\* into every fallouts row of the order
human_review(action) ==
    /\ a3_state.pc = "human"
    /\ a3_fallouts' = [k \in DOMAIN a3_fallouts |->
                         IF a3_fallouts[k].order_id = a3_state.order_id
                         THEN [a3_fallouts[k] EXCEPT !.status =
                                  IF action = "1" THEN "resolved" ELSE "validation_failed"]
                         ELSE a3_fallouts[k]]
    /\ a3_state' = [a3_state EXCEPT !.resolution = "human", !.next_step = "completed",
                                    !.pc = "END"]
    /\ UNCHANGED <<a3_orders, a3_tests, act, act1, activation, template>>

InitAct3 ==
    /\ ActAtRest
    /\ setup_database
    /\ graph_state = IdleGraph
    /\ ActivationAtRest
    /\ TemplateAtRest
    /\ Act3AtRest

NextAct3 ==
    \/ \E o \in A3OrderIds : run_test(o)
    \/ \E text \in A3MasterAnswers : a3_master_agent(text)
    \/ a3_resubmission_agent
    \/ a3_esim_agent
    \/ a3_switch_agent
    \/ \E text \in A3ValidationAnswers : validation_agent(text)
    \/ \E action \in {"1", "2", "3"} : human_review(action)

SpecAct3 == InitAct3 /\ [][NextAct3]_vars

-----------------------------------------------------------------------------
(* src/Activation-Template-Code-Agentic.py: execute_workflow over the list
   retrieve_pending_orders returns.  The tools are external; what
   submit_activation does to the activation status is not decided here. *)

\* the activation statuses retrieve_activation_status may report for a
\* pending order
TpStatuses == {"not_sent", "sent", "failed"}

\* the activation status after submit_activation
TpOutcomes == {"success", "failed", "not_sent"}

\* execute_workflow(account_id) up to the loop: the instructions and the
\* pending orders are fetched and cached
execute_workflow ==
    /\ tp_state.pc = "idle"
    /\ tp_state' = [pc |-> "loop", i |-> 1]
    /\ UNCHANGED <<tp_status, tp_attempts, act, act1, activation, act3>>

\* one pass of "for order in pending_orders" on an order that is not
\* 'not_sent': nothing is done for it
TpSkipOrder ==
    LET i == tp_state.i
    IN  /\ tp_state.pc = "loop"
        /\ i \in TpPending
        /\ tp_status[i] # "not_sent"
        /\ tp_state' = [tp_state EXCEPT !.i = i + 1]
        /\ UNCHANGED <<tp_status, tp_attempts, act, act1, activation, act3>>

\* one pass on a 'not_sent' order: submit_activation, the validation read,
\* retry_activation when that is not 'success', and in both cases the return
\* out of the loop
TpActivateOrder(first, second) ==
    LET i == tp_state.i
    IN  /\ tp_state.pc = "loop"
        /\ i \in TpPending
        /\ tp_status[i] = "not_sent"
        /\ IF first = "success"
           THEN /\ tp_status' = [tp_status EXCEPT ![i] = first]
                /\ tp_attempts' = [tp_attempts EXCEPT ![i] = @ + 1]
           ELSE /\ tp_status' = [tp_status EXCEPT ![i] = second]
                /\ tp_attempts' = [tp_attempts EXCEPT ![i] = @ + 2]
        /\ tp_state' = [tp_state EXCEPT !.pc = "returned"]
        /\ UNCHANGED <<act, act1, activation, act3>>

\* the list is exhausted: execute_workflow returns None
TpEndOfList ==
    /\ tp_state.pc = "loop"
    /\ tp_state.i \notin TpPending
    /\ tp_state' = [tp_state EXCEPT !.pc = "returned"]
    /\ UNCHANGED <<tp_status, tp_attempts, act, act1, activation, act3>>

InitTemplate ==
    /\ ActAtRest
    /\ setup_database
    /\ graph_state = IdleGraph
    /\ ActivationAtRest
    /\ Act3AtRest
    /\ tp_status \in [TpPending -> TpStatuses]
    /\ tp_attempts = [i \in TpPending |-> 0]
    /\ tp_state = TpIdleState

NextTemplate ==
    \/ execute_workflow
    \/ TpSkipOrder
    \/ \E first, second \in TpOutcomes : TpActivateOrder(first, second)
    \/ TpEndOfList

SpecTemplate == InitTemplate /\ [][NextTemplate]_vars

----------------------------------------------------------------------------
(* Properties of src/act.py *)

\* C1: within one workflow run, no remediation handler is invoked more than
\* twice.
C1_AtMostTwoInvocations ==
    \A w \in Workers, t \in HandlerTools : invocations[w][t] <= 2

\* C2: a run in which a remediation attempt failed reaches the human agent
\* only after the same handler was invoked a second time.
C2_RetryBeforeEscalation ==
    \A w \in Workers :
        (wk[w].node = "human_agent" /\ failures[w] >= 1)
            => \E t \in HandlerTools : invocations[w][t] >= 2

\* C3: once two remediation attempts of a run have failed, no step of that
\* run invokes a handler again.
C3_NoThirdInvocation ==
    [][\A w \in Workers, t \in HandlerTools :
          failures[w] >= 2 => invocations'[w][t] <= invocations[w][t]]_vars

\* a handler call on order o is between its first and its last transaction
HandlerInFlight(o) ==
    \E w \in Workers : wk[w].order_id = o /\ wk[w].tool # "none"

\* C5: once an order is Completed and the handler call that completed it has
\* returned, no step appends a log entry for that order.
C5_NoLogAfterCompleted ==
    [][\A o \in OrderIds :
          (orders[o].status = "Completed" /\ ~HandlerInFlight(o))
              => logs'[o] = logs[o]]_vars

\* the store after a successful handler of agent path on order o, with the
\* eSIM status esim_status expected of a reprovisioned eSIM
Postcondition(path, o, esim_status) ==
    /\ orders[o].status = "Completed"
    /\ path = "esim_agent" => esims[o].status = esim_status
    /\ path = "switch_agent" => switches[o] = "Configured"

C7_OneActiveWorkflowPerOrder ==
    \A w, v \in Workers :
        (w # v /\ Active(w) /\ Active(v)) => wk[w].order_id # wk[v].order_id

\* C8: of two workers that run a workflow on the same order at the same
\* time, at most one has written to the store.
C8_LoserWritesNothing ==
    \A w, v \in Workers :
        (w # v /\ Active(w) /\ Active(v) /\ wk[w].order_id = wk[v].order_id)
            => ~(wrote[w] /\ wrote[v])

\* C9: as long as the runs on an order never overlapped and no store write
\* failed, its eSIM was issued at most one activation code, crash and restart
\* included.
C9_NoDoubleReprovision ==
    \A o \in OrderIds : (~overlapped[o] /\ store_errors = 0) => esims[o].code <= 1

\* the log of order o holds an entry of this event type
Logged(o, event) == \E i \in DOMAIN logs[o] : logs[o][i] = event

C12_FailedHasCategory ==
    \A o \in OrderIds :
        orders[o].status = "Failed" => orders[o].fallout_reason \in FalloutTypes

\* C12 witness: the engine has written to an order that is still Failed
C12_FailedAfterEngineWrite ==
    \E o \in OrderIds :
        /\ orders[o].status = "Failed"
        /\ logs[o] # << >>
        /\ \E w \in Workers : wk[w].order_id = o /\ wrote[w]

\* C13: a step that appends a HUMAN_INTERVENTION_NEEDED entry for an order
\* appends exactly that one entry and leaves the order's status, its fallout
\* reason and every eSIM and switch as they were.
C13_EscalationFrame ==
    [][\A o \in OrderIds :
          (logs'[o] # logs[o]
             /\ logs'[o][Len(logs'[o])] = "HUMAN_INTERVENTION_NEEDED")
          => /\ logs'[o] = Append(logs[o], "HUMAN_INTERVENTION_NEEDED")
             /\ orders'[o].status = orders[o].status
             /\ orders'[o].fallout_reason = orders[o].fallout_reason
             /\ esims' = esims
             /\ switches' = switches]_vars

\* C13 witness: mark_for_human_intervention has returned on a Failed order
C13_MarkedFailedOrder ==
    \E w \in Workers :
        /\ wk[w].node = "human_agent"
        /\ wk[w].resolution_status = "HUMAN_INTERVENTION_REQUESTED"
        /\ orders[wk[w].order_id].status = "Failed"

C17_NoPartialMutation ==
    \A o \in OrderIds :
        (orders[o].status = "Failed" /\ ~HandlerInFlight(o)
            /\ crashes = 0 /\ ~overlapped[o])
        => /\ orders[o].fallout_reason = "ESIM_ISSUE"
                => esims[o].status \in {"Failed", "none"}
           /\ orders[o].fallout_reason = "SWITCH_ISSUE"
                => switches[o] \in {"Config Failed", "none"}

\* C18: a run that ends with its order still Failed has written to the store
\* and the order's log holds an escalation entry.
C18_FailedEndHasEscalation ==
    [][\A w \in Workers :
          (Active(w) /\ wk'[w].node = "END"
             /\ orders'[wk[w].order_id].status = "Failed")
          => /\ wrote'[w]
             /\ \E i \in DOMAIN logs'[wk[w].order_id] :
                   logs'[wk[w].order_id][i] = "HUMAN_INTERVENTION_NEEDED"]_vars

C20_TwoDispatchFailedThenEscalated ==
    [][\A w \in Workers :
          (wk[w].node = "human_agent" /\ wk'[w].node = "END" /\ failures[w] >= 1)
          => /\ orders'[wk[w].order_id].resolved_by = NULL
             /\ failures[w] = 2
             /\ Cardinality({i \in DOMAIN logs'[wk[w].order_id] :
                   logs'[wk[w].order_id][i] = "DISPATCH_FAILED"}) = 2]_vars

\* C21: a run on a Failed NOT_SENT_FOR_ACTIVATION order whose resubmission
\* succeeds at the first attempt has appended exactly two log entries for the
\* order and leaves it Completed, resolved by the resubmission handler.
C21_ResubmissionLogsTwoEntries ==
    \A w \in Workers, o \in OrderIds :
        (/\ runs = 1 /\ crashes = 0 /\ store_errors = 0
         /\ wk[w].node = "END" /\ wk[w].order_id = o
         /\ wk[w].resolution_status = "RESOLVED"
         /\ wk[w].resolution_path = "resubmission_agent")
        => /\ Len(logs[o]) = 2
           /\ orders[o].status = "Completed"
           /\ orders[o].resolved_by = "resubmission_agent"

\* the edges a finished run has taken, read off its final AgentState: the
\* edge out of master_agent, the edge out of a specialist if the order was
\* routed to one, and the edge human_agent -> END unless the run ended before
TransitionsTaken(s) ==
    IF s.fallout_type = "NOT_FAILED" THEN 1
    ELSE IF s.resolution_status = "RESOLVED" THEN 2
    ELSE IF route_from_master(s.fallout_type) = "human_agent" THEN 2
    ELSE 3

\* C22: after a run, the number of log entries the run added for its order
\* equals the number of transitions the run took.
C22_OneLogEntryPerTransition ==
    \A w \in Workers, o \in OrderIds :
        (runs = 1 /\ crashes = 0 /\ wk[w].node = "END" /\ wk[w].order_id = o)
        => Len(logs[o]) = TransitionsTaken(wk[w])

\* C23: a run that ends RESOLVED leaves its order Completed, resolved by the
\* handler that was dispatched, with resolution_time set and the fallout
\* reason cleared.
C23_ResolvedPostcondition ==
    \A w \in Workers, o \in OrderIds :
        (wk[w].node = "END" /\ wk[w].order_id = o /\ wk[w].resolution_status = "RESOLVED")
        => orders[o] = [status |-> "Completed", fallout_reason |-> NULL,
                        resolved_by |-> wk[w].resolution_path, resolution_time |-> TRUE]

\* C23 witness: a run ended RESOLVED by the switch handler
C23_RunResolvedBySwitchAgent ==
    \E w \in Workers :
        /\ wk[w].node = "END" /\ wk[w].resolution_status = "RESOLVED"
        /\ wk[w].resolution_path = "switch_agent"

\* C25: an eSIM row changes only in the attachment UPDATE of reprovision_esim
\* running on the order that owns it, and a switch row only in that of
\* reconfigure_switch running on its order.
C25_AttachmentOwnedByHandler ==
    [][\A o \in OrderIds :
          /\ esims'[o] # esims[o] =>
                \E w \in Workers : /\ wk[w].order_id = o
                                   /\ wk[w].tool = "reprovision_esim"
                                   /\ wk[w].tstep = "update_attachment"
          /\ switches'[o] # switches[o] =>
                \E w \in Workers : /\ wk[w].order_id = o
                                   /\ wk[w].tool = "reconfigure_switch"
                                   /\ wk[w].tstep = "update_attachment"]_vars

\* C25 witness: reprovision_esim has written the eSIM of its order while
\* another order has attachments of both kinds
C25_EsimWrittenByHandler ==
    \E w \in Workers, o \in OrderIds :
        /\ wk[w].tool = "reprovision_esim" /\ wk[w].tstep = "update_order"
        /\ o # wk[w].order_id
        /\ esims[o].status # "none" /\ switches[o] # "none"

\* C29: of the runs that invoke a handler on one order, at most one gets
\* success=true.
C29_AtMostOneSuccessPerOrder ==
    \A o \in OrderIds :
        Cardinality({w \in Workers : /\ wk[w].order_id = o
                                     /\ wk[w].resolution_status = "RESOLVED"}) <= 1

\* C30: once a handler of the run has set the order to Completed, the run does
\* not go to human_agent, appends no HUMAN_INTERVENTION_NEEDED entry for the
\* order, and resolved_by stays the specialist.
C30_NoEscalationAfterCompleted ==
    [][\A w \in Workers, o \in OrderIds :
          (/\ Active(w) /\ wk[w].order_id = o /\ wrote[w]
           /\ orders[o].status = "Completed"
           /\ orders[o].resolved_by \in SpecialistNodes)
          => /\ wk'[w].node # "human_agent"
             /\ orders'[o].resolved_by = orders[o].resolved_by
             /\ \/ logs'[o] = logs[o]
                \/ logs'[o][Len(logs'[o])] # "HUMAN_INTERVENTION_NEEDED"]_vars

----------------------------------------------------------------------------
(* Properties of src/act-1.py *)

\* C4: the edge out of route leads to a handler node, and to the human node
\* for every agent name other than those of the three automated handlers.
C4_ClosedDispatch ==
    [][graph_state.pc = "route"
          => /\ graph_state'.pc \in Act1HandlerNodes
             /\ graph_state.agent \notin
                   {"Resubmit Order Agent", "Reprovision eSIM Agent",
                    "Reprovision Switch Agent"}
                  => graph_state'.pc = "human_in_the_loop"]_vars

\* C10: every run of the graph that has started reaches END.
C10_EveryRunEnds ==
    (graph_state.pc = "master") ~> (graph_state.pc = "END")


\* the precondition of the handler behind a node of src/act-1.py: the order is
\* Failed, its issue type is the handler's, and the attachment the handler
\* works on exists
Act1Precondition(node, o) ==
    /\ a1_orders[o].status = "Failed"
    /\ a1_orders[o].issue_type =
          (CASE node = "resubmit_order" -> "Not Sent"
             [] node = "reprovision_esim" -> "eSIM"
             [] node = "reprovision_switch" -> "Switch")
    /\ node = "reprovision_esim" => esim_profiles[o] # "none"
    /\ node = "reprovision_switch" => switch_configs[o] # "none"

\* C16: a handler invoked on an order that is not Failed, whose category is
\* not the handler's, or whose attachment is missing, leaves the order and
\* the attachments exactly as they were.
C16_HandlerRechecksPrecondition ==
    [][(/\ graph_state.pc \in {"resubmit_order", "reprovision_esim", "reprovision_switch"}
        /\ ~Act1Precondition(graph_state.pc, graph_state.order_id))
       => UNCHANGED <<a1_orders, esim_profiles, switch_configs>>]_vars

-----------------------------------------------------------------------------
(* Properties of src/activation.py *)

\* the engine has recorded an escalation for order i
AvEscalated(i) ==
    \E k \in DOMAIN av_logs[i] : av_logs[i][k] = "HUMAN_INTERVENTION_NEEDED"

\* C14: an order the engine has escalated is never again selected by a poll,
\* has no handler run on it, and gets no further escalation entry, however
\* often the orchestrator polls.
C14_EscalationIsTerminal ==
    [][\A i \in AvOrders :
          AvEscalated(i) =>
              /\ ~(av_state.pc # "master_agent" /\ av_state'.pc = "master_agent"
                   /\ av_state'.polled /\ av_state'.run_order = i)
              /\ av_logs'[i] = av_logs[i]
              /\ av_orders'[i] = av_orders[i]]_vars

\* C26: no exception leaves a workflow run, whatever order id the caller
\* names and whatever fails inside the run.
C26_NoExceptionEscapes == av_state.pc # "ERROR"

\* C31: when the orchestrator only polls, a poll selects an order that is
\* already escalated only if every Failed order without a resolver has had a
\* run started on it: an escalated order never takes the place of a failed
\* order that has not been processed yet.
C31_EscalatedNotSelectedBeforeUnprocessed ==
    [][(/\ av_state.pc # "master_agent"
        /\ av_state'.pc = "master_agent"
        /\ av_state'.polled
        /\ AvEscalated(av_state'.run_order))
       => \A j \in AvOrders :
              (av_orders[j].status = "Failed" /\ av_orders[j].resolved_by = NULL)
              => j \in av_selected]_vars

-----------------------------------------------------------------------------
(* Properties of src/act-3.py *)

\* C24: the log of an order is append-only: no step removes a fallouts row or
\* changes one that is written.
C24_LogAppendOnly ==
    [][/\ Len(a3_fallouts') >= Len(a3_fallouts)
       /\ \A k \in DOMAIN a3_fallouts : a3_fallouts'[k] = a3_fallouts[k]]_vars

\* C28: when the validator answers "[success]", validation_agent ends the
\* run as completed and the fallout rows of the order are resolved.
C28_SuccessAnswerCompletes ==
    [][(a3_state.pc = "validation" /\ a3_state'.response = A3SuccessAnswer)
       => /\ a3_state'.pc = "END"
          /\ \A k \in DOMAIN a3_fallouts' :
                a3_fallouts'[k].order_id = a3_state.order_id
                => a3_fallouts'[k].status = "resolved"]_vars

-----------------------------------------------------------------------------
(* Properties of src/Activation-Template-Code-Agentic.py *)

\* C27: when execute_workflow has returned, no order of the pending list is
\* 'not_sent' without an activation attempt.
C27_EveryNotSentOrderAttempted ==
    tp_state.pc = "returned"
    => \A i \in TpPending : tp_status[i] = "not_sent" => tp_attempts[i] >= 1

====
